---------------------------- MODULE Spec2Model ----------------------------
(***************************************************************************)
(* State-machine model of openclaw-memory: the SQLite chunk store          *)
(* (src/lib/database.py), the embedding helpers (src/lib/embeddings.py),   *)
(* the progressive-disclosure search (src/lib/search.py) and the indexing  *)
(* pipeline (src/scripts/index-memories.py).                               *)
(*                                                                         *)
(* Conventions.  A nullable SQL column or an optional Python argument is   *)
(* an option value: None is <<>> and Some(v) is <<v>>.  A Python str is a  *)
(* sequence of one-character strings.  A call of the public API is one    *)
(* action that records what it returned (or raised) in ret; chunk_text is  *)
(* stepped one loop pass at a time through its frame ct.                   *)
(***************************************************************************)
EXTENDS Integers, Sequences, FiniteSets, TLC

VARIABLES
    memory_chunks,  \* rows of table memory_chunks (a set of records)
    chunk_seq,      \* sqlite_sequence value of memory_chunks (AUTOINCREMENT)
    embeddings,     \* rows of table embeddings (a set of records)
    search_log,     \* rows of table search_log, in insertion (id) order
    ret,            \* the last call: [op, args, out, err]
    ct              \* the frame of a running chunk_text call

vars == <<memory_chunks, chunk_seq, embeddings, search_log, ret, ct>>

store == <<memory_chunks, chunk_seq, embeddings, search_log>>

-----------------------------------------------------------------------------
(* Bounds of the model *)

MaxChunks == 3

\* longest text, largest max_chars and most loop passes of a chunk_text call
MaxTextLen == 6

MaxMaxChars == 5

MaxPasses == 9

-----------------------------------------------------------------------------
(* Option values and small helpers *)

None == <<>>

Some(v) == <<v>>

IsNone(o) == o = <<>>

Val(o) == o[1]

\* Python truthiness of an optional int / str / dict argument
\* truthiness of an optional container (dict, tuple): None and the empty
\* container are falsy
Truthy(o) == o # None /\ Val(o) # <<>>

Range(s) == {s[i] : i \in 1..Len(s)}

\* all enumerations of a finite set without repetition: the orders in which
\* a SELECT without ORDER BY may hand back its rows
Orders(S) == {s \in [1..Cardinality(S) -> S] : Range(s) = S}

NoCall == [op |-> "none", args |-> <<>>, out |-> <<>>, err |-> ""]

Call(op, args, out) == [op |-> op, args |-> args, out |-> out, err |-> ""]

Raise(op, args, err) == [op |-> op, args |-> args, out |-> <<>>, err |-> err]

CtIdle == [pc |-> "idle"]

-----------------------------------------------------------------------------
(* MemoryDatabase: schema constraints and statements *)

\* CREATE TABLE memory_chunks: the NOT NULL columns
ChunkNotNullOk(source_file, content, timestamp) ==
    /\ source_file # None
    /\ content # None
    /\ timestamp # None

\* json.dumps: the column holds the serialised text of the dict, which is not
\* the dict
json_dumps(d) == [json |-> d]

\* the row INSERT INTO memory_chunks builds; embedding_model is never given
\* a value, id comes from AUTOINCREMENT
ChunkRow(id, source_file, content, timestamp, line_start, line_end, event_type, metadata) ==
    [id |-> id,
     source_file |-> Val(source_file),
     line_start |-> line_start,
     line_end |-> line_end,
     content |-> Val(content),
     embedding_model |-> None,
     timestamp |-> Val(timestamp),
     event_type |-> event_type,
     metadata |-> IF Truthy(metadata) THEN Some(json_dumps(Val(metadata))) ELSE None]

\* MemoryDatabase.add_chunk
add_chunk(source_file, content, timestamp, line_start, line_end, event_type, metadata) ==
    LET args == <<source_file, content, timestamp, line_start, line_end,
                  event_type, metadata>>
    IN  IF ChunkNotNullOk(source_file, content, timestamp)
        THEN /\ chunk_seq < MaxChunks
             /\ memory_chunks' = memory_chunks \cup
                    {ChunkRow(chunk_seq + 1, source_file, content, timestamp,
                              line_start, line_end, event_type, metadata)}
             /\ chunk_seq' = chunk_seq + 1
             /\ ret' = Call("add_chunk", args, chunk_seq + 1)
             /\ UNCHANGED <<embeddings, search_log, ct>>
        ELSE /\ ret' = Raise("add_chunk", args, "IntegrityError")
             /\ UNCHANGED <<memory_chunks, chunk_seq, embeddings, search_log, ct>>

-----------------------------------------------------------------------------
(* EmbeddingGenerator: binary encoding of a vector                         *)
(*                                                                         *)
(* A vector component is a Python float; the model draws components from   *)
(* integer-valued floats, written as integers.  struct.pack('f') converts  *)
(* each to IEEE-754 binary32 (round to nearest, ties to even) and lays the *)
(* four bytes out in native order, little-endian on the hosts this runs    *)
(* on.                                                                     *)

Pow2(n) == 2^n

Abs(x) == IF x < 0 THEN -x ELSE x

\* floor(log2(a)) for a >= 1
RECURSIVE Log2(_)
Log2(a) == IF a < 2 THEN 0 ELSE 1 + Log2(a \div 2)

\* the 24-bit significand and exponent of the binary32 nearest to a >= 1
F32Norm(a) ==
    LET e == Log2(a)
    IN  IF e <= 23
        THEN [m |-> a * Pow2(23 - e), e |-> e]
        ELSE LET d == Pow2(e - 23)
                 q == a \div d
                 r == a % d
                 up == (2 * r > d) \/ (2 * r = d /\ q % 2 = 1)
                 m == IF up THEN q + 1 ELSE q
             IN  IF m = Pow2(24) THEN [m |-> Pow2(23), e |-> e + 1]
                                 ELSE [m |-> m, e |-> e]

\* struct.pack('f', x): four bytes, least significant first
PackF(x) ==
    IF x = 0 THEN <<0, 0, 0, 0>>
    ELSE LET n == F32Norm(Abs(x))
             frac == n.m - Pow2(23)
             E == n.e + 127
             sign == IF x < 0 THEN 1 ELSE 0
         IN  <<frac % 256,
               (frac \div 256) % 256,
               (E % 2) * 128 + frac \div 65536,
               sign * 128 + E \div 2>>

\* struct.unpack('f', b) for the bytes of an integer-valued binary32
UnpackF(b) ==
    LET sign == b[4] \div 128
        E == (b[4] % 128) * 2 + b[3] \div 128
        frac == (b[3] % 128) * 65536 + b[2] * 256 + b[1]
        m == Pow2(23) + frac
        e == E - 127
        a == IF e >= 23 THEN m * Pow2(e - 23) ELSE m \div Pow2(23 - e)
    IN  IF E = 0 /\ frac = 0 THEN 0
        ELSE IF sign = 1 THEN -a ELSE a

RECURSIVE Flatten(_)
Flatten(ss) == IF ss = <<>> THEN <<>> ELSE Head(ss) \o Flatten(Tail(ss))

\* EmbeddingGenerator.encode_vector
encode_vector(embedding) ==
    Flatten([i \in 1..Len(embedding) |-> PackF(embedding[i])])

\* EmbeddingGenerator.decode_vector
decode_vector(data) ==
    LET count == Len(data) \div 4
    IN  [i \in 1..count |-> UnpackF(SubSeq(data, 4 * i - 3, 4 * i))]

-----------------------------------------------------------------------------
(* MemoryDatabase: embeddings table *)

\* sqlite3.connect() leaves PRAGMA foreign_keys at its default, off, and
\* _init_db never turns it on: the FOREIGN KEY clause is not enforced
foreign_keys == FALSE

ChunkIds == {c.id : c \in memory_chunks}

\* a plain INSERT into a table without the key: the old row stays
InsertOrReplace_NoReplace(table, row) == table \cup {row}

\* INSERT OR REPLACE on the PRIMARY KEY chunk_id: the row holding the key goes
InsertOrReplace(table, row) ==
    {e \in table : e.chunk_id # row.chunk_id} \cup {row}

\* add_embedding that also writes the model into the chunk's embedding_model
add_embedding_SetsModel(chunk_id, vector, model, now) ==
    /\ embeddings' = InsertOrReplace(embeddings,
                          [chunk_id |-> chunk_id, vector |-> vector,
                           model |-> model, created_at |-> now])
    /\ memory_chunks' = {IF c.id = chunk_id
                         THEN [c EXCEPT !.embedding_model = Some(model)] ELSE c
                         : c \in memory_chunks}
    /\ ret' = Call("add_embedding", <<chunk_id, vector, model>>, None)
    /\ UNCHANGED <<chunk_seq, search_log, ct>>

\* MemoryDatabase.add_embedding; now is datetime.now() at the call
add_embedding(chunk_id, vector, model, now) ==
    LET args == <<chunk_id, vector, model>>
        row == [chunk_id |-> chunk_id, vector |-> vector, model |-> model,
                created_at |-> now]
    IN  IF foreign_keys /\ chunk_id \notin ChunkIds
        THEN /\ ret' = Raise("add_embedding", args, "IntegrityError")
             /\ UNCHANGED <<memory_chunks, chunk_seq, embeddings, search_log, ct>>
        ELSE /\ embeddings' = InsertOrReplace(embeddings, row)
             /\ ret' = Call("add_embedding", args, None)
             /\ UNCHANGED <<memory_chunks, chunk_seq, search_log, ct>>

-----------------------------------------------------------------------------
(* MemoryDatabase: queries *)

\* SELECT * FROM memory_chunks WHERE id = ?
ChunkById(chunk_id) == {c \in memory_chunks : c.id = chunk_id}

\* MemoryDatabase.get_chunk: the row, or None
db_get_chunk(chunk_id) ==
    IF ChunkById(chunk_id) = {} THEN None
    ELSE Some(CHOOSE c \in ChunkById(chunk_id) : TRUE)

\* memory_chunks c LEFT JOIN embeddings e ON c.id = e.chunk_id
LeftJoinEmbeddings ==
    UNION {LET m == {e \in embeddings : e.chunk_id = c.id}
           IN  IF m = {} THEN {[c |-> c, e |-> None]}
               ELSE {[c |-> c, e |-> Some(e)] : e \in m}
           : c \in memory_chunks}

\* the filter dropped: every joined row passes
UnindexedJoinRows_NoFilter == LeftJoinEmbeddings

\* ... WHERE e.chunk_id IS NULL
UnindexedJoinRows == {j \in LeftJoinEmbeddings : j.e = None}

\* MemoryDatabase.get_unindexed_chunks
get_unindexed_chunks ==
    /\ \E rows \in Orders(UnindexedJoinRows) :
           ret' = Call("get_unindexed_chunks", <<>>,
                       [i \in 1..Len(rows) |-> rows[i].c])
    /\ UNCHANGED <<memory_chunks, chunk_seq, embeddings, search_log, ct>>

\* MemoryDatabase.get_chunk
get_chunk(chunk_id) ==
    /\ ret' = Call("get_chunk", <<chunk_id>>, db_get_chunk(chunk_id))
    /\ UNCHANGED <<memory_chunks, chunk_seq, embeddings, search_log, ct>>

(* Timeline: MemoryDatabase.get_timeline and MemorySearch.get_timeline *)

SecondsPerHour == 3600

PreviewChars == 100

\* exclusive bounds in place of BETWEEN
Between_Exclusive(x, lo, hi) == lo < x /\ x < hi

\* x BETWEEN lo AND hi
Between(x, lo, hi) == lo <= x /\ x <= hi

\* ORDER BY timestamp ASC: the orders of rows that ascend by timestamp
OrderByTimestampAsc(rows) ==
    {s \in Orders(rows) :
        \A i, j \in 1..Len(s) : i < j => s[i].timestamp <= s[j].timestamp}

\* the result sets MemoryDatabase.get_timeline may hand back
db_get_timeline(chunk_id, window) ==
    LET chunk == db_get_chunk(chunk_id)
    IN  IF chunk = None THEN {<<>>}
        ELSE LET timestamp == Val(chunk).timestamp
             IN  OrderByTimestampAsc(
                     {c \in memory_chunks :
                         Between(c.timestamp,
                                 timestamp - window * SecondsPerHour,
                                 timestamp + window * SecondsPerHour)})

\* strftime('%Y-%m-%d %H:%M') of a timestamp: its minute, the seconds dropped
FormatMinute(timestamp) == timestamp - (timestamp % 60)

\* content[:n] + ('...' if len(content) > n else '')
Preview(content, n) ==
    IF Len(content) > n THEN SubSeq(content, 1, n) \o <<".", ".", ".">>
    ELSE content

TimelineEntry(c) ==
    [id |-> c.id,
     timestamp |-> FormatMinute(c.timestamp),
     type |-> c.event_type,
     preview |-> Preview(c.content, PreviewChars)]

\* get_timeline that also records the lookup in the search log
get_timeline_Logged(memory_id, window_hours) ==
    /\ \E chunks \in db_get_timeline(memory_id, window_hours) :
           /\ ret' = Call("get_timeline", <<memory_id, window_hours>>,
                          [i \in 1..Len(chunks) |-> TimelineEntry(chunks[i])])
           /\ search_log' = Append(search_log,
                                   [query |-> <<>>, result_count |-> Len(chunks),
                                    timestamp |-> 0])
    /\ UNCHANGED <<memory_chunks, chunk_seq, embeddings, ct>>

\* MemorySearch.get_timeline
get_timeline(memory_id, window_hours) ==
    /\ \E chunks \in db_get_timeline(memory_id, window_hours) :
           ret' = Call("get_timeline", <<memory_id, window_hours>>,
                       [i \in 1..Len(chunks) |-> TimelineEntry(chunks[i])])
    /\ UNCHANGED <<memory_chunks, chunk_seq, embeddings, search_log, ct>>

-----------------------------------------------------------------------------
(* EmbeddingGenerator.cosine_similarity and the relevance score            *)
(*                                                                         *)
(* The vectors of the model have integer components and an integer norm,   *)
(* so math.sqrt is exact on them and the similarity is the rational        *)
(* dot / (|a| * |b|).  A relevance, round(similarity, 4), is written as    *)
(* the integer number of ten-thousandths.                                  *)

Min(a, b) == IF a < b THEN a ELSE b

Max(a, b) == IF a > b THEN a ELSE b

RECURSIVE SumTo(_, _)
SumTo(f, n) == IF n = 0 THEN 0 ELSE f[n] + SumTo(f, n - 1)

\* sum(x * y for x, y in zip(a, b)): zip stops at the shorter vector
DotProduct(a, b) ==
    SumTo([i \in 1..Min(Len(a), Len(b)) |-> a[i] * b[i]], Min(Len(a), Len(b)))

\* math.sqrt(sum(x * x for x in a))
Magnitude(a) ==
    LET n == SumTo([i \in 1..Len(a) |-> a[i] * a[i]], Len(a))
    IN  CHOOSE r \in 0..n : r * r <= n /\ n < (r + 1) * (r + 1)

\* round(num / den, 4) in ten-thousandths, den > 0, ties to even
Round4(num, den) ==
    LET n == 10000 * num
        q == n \div den
        r == n % den
    IN  IF 2 * r > den \/ (2 * r = den /\ q % 2 = 1) THEN q + 1 ELSE q

\* round(cosine_similarity(a, b), 4); 0.0 when either magnitude is 0
Relevance(a, b) ==
    IF Magnitude(a) = 0 \/ Magnitude(b) = 0 THEN 0
    ELSE Round4(DotProduct(a, b), Magnitude(a) * Magnitude(b))

-----------------------------------------------------------------------------
(* MemorySearch.search_index *)

TitleChars == 50

SecondsPerDay == 86400

\* MemorySearch() builds its generator with backend="local"
SearchModel == "all-MiniLM-L6-v2"

\* content.split('\n')[0]
FirstLine(content) ==
    IF \E i \in 1..Len(content) : content[i] = "\n"
    THEN SubSeq(content, 1,
                (CHOOSE i \in 1..Len(content) :
                    content[i] = "\n" /\ \A j \in 1..(i - 1) : content[j] # "\n") - 1)
    ELSE content

\* strftime('%Y-%m-%d') of a timestamp: its day
FormatDay(timestamp) == timestamp - (timestamp % SecondsPerDay)

\* the SELECT of search_index: chunks joined to their embeddings, filtered
\* by event type and by the inclusive date range when these are given
SearchRows(date_range, event_type) ==
    {j \in {[c |-> c, e |-> e] : c \in memory_chunks, e \in embeddings} :
        /\ j.c.id = j.e.chunk_id
        /\ (event_type = None \/ j.c.event_type = event_type)
        /\ (~Truthy(date_range) \/ Val(date_range)[1] = None
                \/ j.c.timestamp >= Val(Val(date_range)[1]))
        /\ (~Truthy(date_range) \/ Val(date_range)[2] = None
                \/ j.c.timestamp <= Val(Val(date_range)[2]))}

\* the compact result built for one fetched row
SearchResult(row, query_embedding) ==
    [id |-> row.c.id,
     title |-> Preview(FirstLine(row.c.content), TitleChars),
     date |-> FormatDay(row.c.timestamp),
     type |-> row.c.event_type,
     source |-> row.c.source_file,
     relevance |-> Relevance(query_embedding, decode_vector(row.e.vector))]

\* list.sort(key=relevance, reverse=True): stable, equal keys keep their order
RECURSIVE SortByRelevance(_)
SortByRelevance(results) ==
    IF results = <<>> THEN <<>>
    ELSE LET n == Len(results)
             x == results[n]
             sorted == SortByRelevance(SubSeq(results, 1, n - 1))
             k == Cardinality({i \in 1..(n - 1) : sorted[i].relevance >= x.relevance})
         IN  SubSeq(sorted, 1, k) \o <<x>> \o SubSeq(sorted, k + 1, n - 1)

\* results[:limit + 1]
Truncate_OneMore(results, limit) ==
    IF limit + 1 >= 0 THEN SubSeq(results, 1, Min(limit + 1, Len(results)))
    ELSE SubSeq(results, 1, Max(0, Len(results) + limit + 1))

\* results[:limit]
Truncate(results, limit) ==
    IF limit >= 0 THEN SubSeq(results, 1, Min(limit, Len(results)))
    ELSE SubSeq(results, 1, Max(0, Len(results) + limit))

\* a row with the count left at 0
LogRow_NoCount(query, result_count, now) ==
    [query |-> query, result_count |-> 0, timestamp |-> now]

\* INSERT INTO search_log (query, result_count, timestamp)
LogRow(query, result_count, now) ==
    [query |-> query, result_count |-> result_count, timestamp |-> now]

\* MemorySearch.search_index: query_embedding is what the generator returns
\* for query, rows the order in which the cursor hands back the SELECT
search_index(query, limit, date_range, event_type, query_embedding, rows, now) ==
    LET scored == [i \in 1..Len(rows) |-> SearchResult(rows[i], query_embedding)]
    IN  \E results \in {SortByRelevance(scored)} :
        /\ search_log' = Append(search_log,
                                LogRow(query, Len(Truncate(results, limit)), now))
        /\ ret' = Call("search_index", <<query, limit, date_range, event_type>>,
                       Truncate(results, limit))
        /\ UNCHANGED <<memory_chunks, chunk_seq, embeddings, ct>>

\* MemorySearch.search_index when the embedding backend raises: the
\* exception leaves search_index before any statement is run
search_index_backend_error(query, limit, date_range, event_type) ==
    /\ ret' = Raise("search_index", <<query, limit, date_range, event_type>>,
                    "BackendError")
    /\ UNCHANGED <<memory_chunks, chunk_seq, embeddings, search_log, ct>>

-----------------------------------------------------------------------------
(* chunk_text                                                              *)
(*                                                                         *)
(* Indices are Python's, from 0: character i of text is text[i + 1].  A    *)
(* call is in ct: pc "call" before line 107, "loop" at the while test,     *)
(* "done" after the return.                                                *)

\* a slice bound as Python normalises it against a length
SliceIndex(i, n) == IF i < 0 THEN Max(0, i + n) ELSE Min(i, n)

\* text[start:end]
Slice(text, start, end) ==
    LET a == SliceIndex(start, Len(text))
        b == SliceIndex(end, Len(text))
    IN  IF a >= b THEN <<>> ELSE SubSeq(text, a + 1, b)

\* text.rfind(sub, start, end): the highest index in the slice where sub
\* starts and fits, or -1
RFind(text, sub, start, end) ==
    LET a == SliceIndex(start, Len(text))
        b == SliceIndex(end, Len(text))
        found == {i \in a..(b - Len(sub)) : SubSeq(text, i + 1, i + Len(sub)) = sub}
    IN  IF found = {} THEN -1 ELSE CHOOSE i \in found : \A j \in found : j <= i

Whitespace == {" ", "\n", "\t", "\r"}

\* str.strip()
Strip(str) ==
    LET solid == {i \in 1..Len(str) : str[i] \notin Whitespace}
    IN  IF solid = {} THEN <<>>
        ELSE SubSeq(str, CHOOSE i \in solid : \A j \in solid : i <= j,
                         CHOOSE i \in solid : \A j \in solid : j <= i)

\* where the window that starts at start ends (lines 114-125)
WindowEnd(text, max_chars, start) ==
    LET end == start + max_chars
        newline_pos == RFind(text, <<"\n", "\n">>, start, end)
        period_pos == RFind(text, <<".", " ">>, start, end)
    IN  IF end < Len(text)
        THEN IF newline_pos # -1 /\ newline_pos > start + max_chars \div 2
             THEN newline_pos
             ELSE IF period_pos # -1 /\ period_pos > start + max_chars \div 2
                  THEN period_pos + 1
                  ELSE end
        ELSE end

\* one character too far: the window after a cut skips a character
NextStart_SkipOne(end, overlap) == end - overlap + 1

\* the start of the next window (line 128)
NextStart(end, overlap) == end - overlap

\* lines 107-111: a text that fits is returned whole, else the loop is set up
chunk_text_enter ==
    /\ ct.pc = "call"
    /\ IF Len(ct.text) <= ct.max_chars
       THEN /\ ct' = [ct EXCEPT !.pc = "done"]
            /\ ret' = Call("chunk_text", <<ct.text, ct.max_chars, ct.overlap>>,
                           <<ct.text>>)
       ELSE /\ ct' = [ct EXCEPT !.pc = "loop"]
            /\ UNCHANGED ret
    /\ UNCHANGED <<memory_chunks, chunk_seq, embeddings, search_log>>

\* lines 113-128: one pass of the while loop
chunk_text_loop ==
    /\ ct.pc = "loop"
    /\ ct.start < Len(ct.text)
    /\ Len(ct.chunks) < MaxPasses
    /\ LET end == WindowEnd(ct.text, ct.max_chars, ct.start)
       IN  ct' = [ct EXCEPT
                     !.chunks = Append(@, Strip(Slice(ct.text, ct.start, end))),
                     !.windows = Append(@, <<ct.start, end>>),
                     !.start = NextStart(end, ct.overlap)]
    /\ UNCHANGED <<memory_chunks, chunk_seq, embeddings, search_log, ret>>

\* lines 113 and 130: the while test fails and chunks is returned
chunk_text_return ==
    /\ ct.pc = "loop"
    /\ ~(ct.start < Len(ct.text))
    /\ ct' = [ct EXCEPT !.pc = "done"]
    /\ ret' = Call("chunk_text", <<ct.text, ct.max_chars, ct.overlap>>, ct.chunks)
    /\ UNCHANGED <<memory_chunks, chunk_seq, embeddings, search_log>>

-----------------------------------------------------------------------------
(* index-memories.py: extract_events_from_file and index_file              *)
(*                                                                         *)
(* A file is [path, stem_timestamp, lines]: lines is content.split('\n'),  *)
(* stem_timestamp what strptime(filepath.stem, '%Y-%m-%d') gives, None     *)
(* when it raises ValueError.                                              *)

MinSectionChars == 50

\* '\n'.join(lines)
RECURSIVE Join(_)
Join(lines) ==
    IF lines = <<>> THEN <<>>
    ELSE IF Len(lines) = 1 THEN lines[1]
    ELSE lines[1] \o <<"\n">> \o Join(Tail(lines))

\* str.startswith('##')
StartsWithHashes(str) == Len(str) >= 2 /\ str[1] = "#" /\ str[2] = "#"

\* str.replace('##', '')
RECURSIVE RemoveHashes(_)
RemoveHashes(str) ==
    IF str = <<>> THEN <<>>
    ELSE IF StartsWithHashes(str) THEN RemoveHashes(SubSeq(str, 3, Len(str)))
    ELSE <<str[1]>> \o RemoveHashes(Tail(str))

LowerChar(ch) ==
    CASE ch = "A" -> "a" [] ch = "B" -> "b" [] ch = "D" -> "d" [] ch = "X" -> "x"
      [] OTHER -> ch

\* str.lower()
Lower(str) == [i \in 1..Len(str) |-> LowerChar(str[i])]

\* the heading's section name (line 50)
SectionName(stripped) == Lower(Strip(RemoveHashes(stripped)))

\* the event of a finished section, if it is long enough (lines 39-47, 57-65)
SectionEvents(acc, line_end) ==
    IF acc.section_lines # <<>> /\ Len(Join(acc.section_lines)) > MinSectionChars
    THEN <<[content |-> Join(acc.section_lines),
            type |-> IF acc.current_section = None \/ Val(acc.current_section) = <<>>
                     THEN <<"s", "e", "c", "t", "i", "o", "n">>
                     ELSE Val(acc.current_section),
            line_start |-> acc.section_start,
            line_end |-> line_end]>>
    ELSE <<>>

\* the for loop of extract_events_from_file over lines i..len(lines)
RECURSIVE ExtractFrom(_, _, _)
ExtractFrom(lines, i, acc) ==
    IF i > Len(lines)
    THEN acc.events \o SectionEvents(acc, Len(lines))
    ELSE IF StartsWithHashes(Strip(lines[i]))
         THEN ExtractFrom(lines, i + 1,
                  [events |-> acc.events \o SectionEvents(acc, i - 1),
                   current_section |-> Some(SectionName(Strip(lines[i]))),
                   section_start |-> i,
                   section_lines |-> <<lines[i]>>])
         ELSE ExtractFrom(lines, i + 1,
                  [acc EXCEPT !.section_lines = Append(@, lines[i])])

\* extract_events_from_file
extract_events_from_file(file) ==
    ExtractFrom(file.lines, 1,
                [events |-> <<>>, current_section |-> None,
                 section_start |-> 0, section_lines |-> <<>>])

\* the check is gone: no source ever counts as indexed
AlreadyIndexed_Never(path) == FALSE

\* SELECT COUNT(*) FROM memory_chunks WHERE source_file = ? ... > 0
AlreadyIndexed(path) == \E c \in memory_chunks : c.source_file = path

\* the chunk rows the for loop of index_file adds for events
IndexedChunks(file, events) ==
    {ChunkRow(chunk_seq + k, Some(file.path), Some(events[k].content),
              file.stem_timestamp, Some(events[k].line_start),
              Some(events[k].line_end), Some(events[k].type), None)
     : k \in 1..Len(events)}

\* the embeddings table after the first k events: event k is embedded with
\* vectors[k] unless the generator raised for it (vectors[k] = None)
RECURSIVE IndexedEmbeddings(_, _, _, _)
IndexedEmbeddings(k, vectors, model, now) ==
    IF k = 0 THEN embeddings
    ELSE LET before == IndexedEmbeddings(k - 1, vectors, model, now)
         IN  IF vectors[k] = None THEN before
             ELSE InsertOrReplace(before,
                      [chunk_id |-> chunk_seq + k,
                       vector |-> encode_vector(Val(vectors[k])),
                       model |-> model, created_at |-> now])

\* index_file: vectors[k] is what embedding_gen.generate returns for event
\* k, None when it raises
index_file(file, dry_run, model, vectors, now) ==
    LET args == <<file.path, dry_run>>
        events == extract_events_from_file(file)
        quiet == UNCHANGED <<memory_chunks, chunk_seq, embeddings, search_log, ct>>
    IN  IF file.stem_timestamp = None THEN ret' = Call("index_file", args, 0) /\ quiet
        ELSE IF AlreadyIndexed(file.path) THEN ret' = Call("index_file", args, 0) /\ quiet
        ELSE IF events = <<>> THEN ret' = Call("index_file", args, 0) /\ quiet
        ELSE IF dry_run THEN ret' = Call("index_file", args, Len(events)) /\ quiet
        ELSE /\ chunk_seq + Len(events) <= MaxChunks
             /\ memory_chunks' = memory_chunks \cup IndexedChunks(file, events)
             /\ chunk_seq' = chunk_seq + Len(events)
             /\ embeddings' = IndexedEmbeddings(Len(events), vectors, model, now)
             /\ ret' = Call("index_file", args,
                            Cardinality({k \in 1..Len(events) : vectors[k] # None}))
             /\ UNCHANGED <<search_log, ct>>

-----------------------------------------------------------------------------
(* MemorySearch.get_memories and search_fulltext, MemoryDatabase.log_search *)

FulltextPreviewChars == 200

Digits == <<"0", "1", "2", "3", "4", "5", "6", "7", "8", "9">>

\* str(n) of an integer
RECURSIVE IntStr(_)
IntStr(n) ==
    IF n < 0 THEN <<"-">> \o IntStr(-n)
    ELSE IF n < 10 THEN <<Digits[n + 1]>>
    ELSE IntStr(n \div 10) \o <<Digits[(n % 10) + 1]>>

\* str() of an optional integer: str(None) is 'None'
OptStr(o) == IF o = None THEN <<"N", "o", "n", "e">> ELSE IntStr(Val(o))

\* f"{c['line_start']}-{c['line_end']}"
FormatLines(line_start, line_end) == OptStr(line_start) \o <<"-">> \o OptStr(line_end)

\* truthiness of an optional integer: None and 0 are falsy
IntTruthy(o) == o # None /\ Val(o) # 0

\* strftime('%Y-%m-%d %H:%M:%S') of a timestamp: its second, nothing dropped
FormatSecond(timestamp) == timestamp - (timestamp % 1)

\* the result sets MemoryDatabase.get_chunks may hand back
db_get_chunks(chunk_ids) ==
    IF chunk_ids = <<>> THEN {<<>>}
    ELSE Orders({c \in memory_chunks : c.id \in Range(chunk_ids)})

MemoryEntry(c) ==
    [id |-> c.id,
     source |-> c.source_file,
     lines |-> IF IntTruthy(c.line_start)
               THEN Some(FormatLines(c.line_start, c.line_end))
               ELSE None,
     content |-> c.content,
     timestamp |-> FormatSecond(c.timestamp),
     type |-> c.event_type,
     metadata |-> c.metadata]

\* MemorySearch.get_memories
get_memories(ids) ==
    /\ \E chunks \in db_get_chunks(ids) :
           ret' = Call("get_memories", <<ids>>,
                       [i \in 1..Len(chunks) |-> MemoryEntry(chunks[i])])
    /\ UNCHANGED <<memory_chunks, chunk_seq, embeddings, search_log, ct>>

\* content LIKE '%query%' for a query free of the wildcards % and _:
\* containment, letters compared without case
Like(content, query) ==
    \E i \in 0..(Len(content) - Len(query)) :
        Lower(SubSeq(content, i + 1, i + Len(query))) = Lower(query)

\* ORDER BY timestamp DESC: the orders of rows that descend by timestamp
OrderByTimestampDesc(rows) ==
    {s \in Orders(rows) :
        \A i, j \in 1..Len(s) : i < j => s[i].timestamp >= s[j].timestamp}

\* LIMIT ?: a negative limit is no limit
SqlLimit(rows, limit) ==
    IF limit < 0 THEN rows ELSE SubSeq(rows, 1, Min(limit, Len(rows)))

\* the result sets MemoryDatabase.search_fulltext may hand back
db_search_fulltext(query, limit) ==
    {SqlLimit(s, limit) :
        s \in OrderByTimestampDesc({c \in memory_chunks : Like(c.content, query)})}

FulltextEntry(c) ==
    [id |-> c.id,
     source |-> c.source_file,
     preview |-> Preview(c.content, FulltextPreviewChars),
     date |-> FormatDay(c.timestamp),
     type |-> c.event_type]

\* MemorySearch.search_fulltext
search_fulltext(query, limit) ==
    /\ \E chunks \in db_search_fulltext(query, limit) :
           ret' = Call("search_fulltext", <<query, limit>>,
                       [i \in 1..Len(chunks) |-> FulltextEntry(chunks[i])])
    /\ UNCHANGED <<memory_chunks, chunk_seq, embeddings, search_log, ct>>

\* MemoryDatabase.log_search
log_search(query, result_count, now) ==
    /\ search_log' = Append(search_log, LogRow(query, result_count, now))
    /\ ret' = Call("log_search", <<query, result_count>>, None)
    /\ UNCHANGED <<memory_chunks, chunk_seq, embeddings, ct>>

-----------------------------------------------------------------------------
(* Specifications: initial state and input domains *)

Source == <<"u", ".", "m", "d">>

LocalModel == "all-MiniLM-L6-v2"

OpenAIModel == "text-embedding-3-small"

NowValues == {1700000000, 1700000001}

Init ==
    /\ memory_chunks = {}
    /\ chunk_seq = 0
    /\ embeddings = {}
    /\ search_log = <<>>
    /\ ret = NoCall
    /\ ct = CtIdle

(* SpecStore: chunks and their embeddings *)

\* what callers hand to add_embedding: an encoded vector and its model name
StoreEmbeddings ==
    {<<encode_vector(<<1, 0>>), LocalModel>>,
     <<encode_vector(<<0, 1, 0>>), OpenAIModel>>}

NextStore ==
    \/ add_chunk(Some(Source), Some(<<"x">>), Some(0), None, None, None, None)
    \/ \E chunk_id \in 1..(chunk_seq + 1), vm \in StoreEmbeddings, now \in NowValues :
           add_embedding(chunk_id, vm[1], vm[2], now)
    \/ get_unindexed_chunks
    \/ \E chunk_id \in 1..(chunk_seq + 1) : get_chunk(chunk_id)

SpecStore == Init /\ [][NextStore]_vars

(* SpecChunks: the chunk table, its validation and the timeline *)

ChunkContents == {None, Some(<<>>), Some(<<"x">>)}

ChunkTimestamps == {None, Some(0), Some(3600), Some(3601)}

TimelineWindows == {-1, 0, 1}

NextChunks ==
    \/ \E content \in ChunkContents, timestamp \in ChunkTimestamps :
           add_chunk(Some(Source), content, timestamp, None, None, None, None)
    \/ \E memory_id \in 1..(chunk_seq + 1), window_hours \in TimelineWindows :
           get_timeline(memory_id, window_hours)
    \/ \E chunk_id \in 1..(chunk_seq + 1) : get_chunk(chunk_id)

SpecChunks == Init /\ [][NextChunks]_vars

(* SpecSearch: semantic search over embedded chunks *)

MaxLog == 1

SearchTimestamps == {Some(100), Some(200)}

SearchEmbeddings ==
    {<<encode_vector(<<1, 0>>), LocalModel>>,
     <<encode_vector(<<3, 4>>), LocalModel>>,
     <<encode_vector(<<0, 1, 0>>), OpenAIModel>>}

Query == <<"q">>

\* what the local generator may return for the query text
QueryEmbeddings == {<<1, 0>>}

SearchLimits == {2, 10}

SearchNow == 1700000000

NextSearch ==
    \/ \E timestamp \in SearchTimestamps :
           add_chunk(Some(Source), Some(<<"x">>), timestamp, None, None, Some("decision"), None)
    \/ \E chunk_id \in 1..chunk_seq, vm \in SearchEmbeddings :
           add_embedding(chunk_id, vm[1], vm[2], SearchNow)
    \/ \E limit \in SearchLimits, q \in QueryEmbeddings, rows \in Orders(SearchRows(None, None)) :
           /\ Len(search_log) < MaxLog
           /\ search_index(Query, limit, None, None, q, rows, SearchNow)
    \/ \E limit \in SearchLimits :
           search_index_backend_error(Query, limit, None, None)

SpecSearch == Init /\ [][NextSearch]_vars

(* SpecChunkText: one chunk_text call per behaviour *)

Alphabet == {"a", ".", " ", "\n"}

Texts == UNION {[1..n -> Alphabet] : n \in 0..MaxTextLen}

ChunkTextCall(text, max_chars, overlap) ==
    [pc |-> "call", text |-> text, max_chars |-> max_chars, overlap |-> overlap,
     start |-> 0, chunks |-> <<>>, windows |-> <<>>]

InitChunkText ==
    /\ memory_chunks = {}
    /\ chunk_seq = 0
    /\ embeddings = {}
    /\ search_log = <<>>
    /\ ret = NoCall
    /\ \E text \in Texts, max_chars \in 1..MaxMaxChars :
           \E overlap \in 0..(max_chars - 1) :
               ct = ChunkTextCall(text, max_chars, overlap)

NextChunkText ==
    \/ chunk_text_enter
    \/ chunk_text_loop
    \/ chunk_text_return

SpecChunkText == InitChunkText /\ [][NextChunkText]_vars

(* SpecIndex: the indexing pipeline over a few daily notes *)

RECURSIVE Repeat(_, _)
Repeat(ch, n) == IF n = 0 THEN <<>> ELSE <<ch>> \o Repeat(ch, n - 1)

Body == Repeat("a", MinSectionChars + 1)

\* a preamble, a section and a section too short to keep
NoteA ==
    [path |-> <<"2", "0", "2", "6", "-", "0", "1", "-", "0", "1", ".", "m", "d">>,
     stem_timestamp |-> Some(1767225600),
     lines |-> <<Body, <<"#", "#", " ", "D", "o", "n", "e">>, Body, <<"#", "#", " ", "B">>, <<"a">>>>]

\* one section
NoteB ==
    [path |-> <<"2", "0", "2", "6", "-", "0", "1", "-", "0", "2", ".", "m", "d">>,
     stem_timestamp |-> Some(1767312000),
     lines |-> <<<<" ", "#", "#">>, Body>>]

\* nothing long enough to keep
NoteC ==
    [path |-> <<"2", "0", "2", "6", "-", "0", "1", "-", "0", "3", ".", "m", "d">>,
     stem_timestamp |-> Some(1767398400),
     lines |-> <<<<"#", "#", " ", "A">>, <<"a">>>>]

\* a name that is no date
NoteD ==
    [path |-> <<"n", "o", "t", "e", "s", ".", "m", "d">>,
     stem_timestamp |-> None,
     lines |-> <<<<"#", "#", " ", "A">>, Body>>]

Files == {NoteA, NoteB, NoteC, NoteD}

\* what the generator gives for one event: a vector, or None when it raises
GenerateOutcomes == {None, Some(<<1, 0>>)}

MaxEvents == 2

NextIndex ==
    \/ \E file \in Files, dry_run \in BOOLEAN, vectors \in [1..MaxEvents -> GenerateOutcomes] :
           index_file(file, dry_run, LocalModel, vectors, SearchNow)
    \/ add_chunk(Some(Source), Some(<<"x">>), Some(0), None, None, None, None)
    \/ get_unindexed_chunks
    \/ \E chunk_id \in 1..chunk_seq : get_memories(<<chunk_id>>)

SpecIndex == Init /\ [][NextIndex]_vars

(* SpecLimit: search_index under its limit and its filters *)

\* the timestamp and event type of the chunks stored
LimitChunks == {<<Some(100), Some("decision")>>, <<Some(200), None>>}

LimitValues == {-1, 0, 1, 10}

\* date_range as callers give it: absent, or open at one end
LimitDateRanges == {None, Some(<<Some(200), None>>), Some(<<None, Some(100)>>)}

LimitEventTypes == {None, Some("decision")}

NextLimit ==
    \/ \E tc \in LimitChunks :
           add_chunk(Some(Source), Some(<<"x">>), tc[1], None, None, tc[2], None)
    \/ \E chunk_id \in 1..chunk_seq :
           add_embedding(chunk_id, encode_vector(<<1, 0>>), LocalModel, SearchNow)
    \/ /\ Len(search_log) < MaxLog
       /\ \E limit \in LimitValues, date_range \in LimitDateRanges, event_type \in LimitEventTypes :
              \E rows \in Orders(SearchRows(date_range, event_type)) :
                  search_index(Query, limit, date_range, event_type, <<1, 0>>, rows, SearchNow)

SpecLimit == Init /\ [][NextLimit]_vars

(* SpecDisclosure: the disclosure stages and the fallback search *)

\* chunks arrive an hour apart: the content and timestamp of the next one
DisclosureChunk == <<Some(<<"X", "y">>), Some(SecondsPerHour * chunk_seq)>>

\* the id lists handed to get_memories
DisclosureIds == {<<>>, <<2, 1>>} \cup {<<i>> : i \in 1..(chunk_seq + 1)}

DisclosureWindows == {0, 1}

DisclosureLimits == {1, 10}

FulltextQueries == {<<"x">>, <<"z">>}

NextDisclosure ==
    \/ add_chunk(Some(Source), DisclosureChunk[1], DisclosureChunk[2], None, None, None, None)
    \/ \E chunk_id \in 1..chunk_seq :
           add_embedding(chunk_id, encode_vector(<<1, 0>>), LocalModel, SearchNow)
    \/ /\ Len(search_log) < MaxLog
       /\ \E limit \in DisclosureLimits, rows \in Orders(SearchRows(None, None)) :
              search_index(Query, limit, None, None, <<1, 0>>, rows, SearchNow)
    \/ search_index_backend_error(Query, 10, None, None)
    \/ \E memory_id \in 1..(chunk_seq + 1), window_hours \in DisclosureWindows :
           get_timeline(memory_id, window_hours)
    \/ \E ids \in DisclosureIds : get_memories(ids)
    \/ \E query \in FulltextQueries, limit \in DisclosureLimits :
           search_fulltext(query, limit)

SpecDisclosure == Init /\ [][NextDisclosure]_vars

(* SpecCodec: vectors through encode_vector and decode_vector *)

MaxVecLen == 3

\* components: small integers and the two sides of the 24-bit significand
Components == {0, 1, -3, 16777216, 16777217}

Vectors == UNION {[1..n -> Components] : n \in 0..MaxVecLen}

\* a call of EmbeddingGenerator.encode_vector
encode_vector_call(embedding) ==
    /\ ret' = Call("encode_vector", <<embedding>>, encode_vector(embedding))
    /\ UNCHANGED <<memory_chunks, chunk_seq, embeddings, search_log, ct>>

\* a call of EmbeddingGenerator.decode_vector: struct.unpack raises when the
\* buffer is not count * 4 bytes long
decode_vector_call(data) ==
    /\ ret' = IF Len(data) % 4 = 0
              THEN Call("decode_vector", <<data>>, decode_vector(data))
              ELSE Raise("decode_vector", <<data>>, "struct.error")
    /\ UNCHANGED <<memory_chunks, chunk_seq, embeddings, search_log, ct>>

NextCodec ==
    \/ \E embedding \in Vectors : encode_vector_call(embedding)
    \/ ret.op = "encode_vector" /\ decode_vector_call(ret.out)
    \/ ret.op = "encode_vector" /\ ret.out # <<>> /\ decode_vector_call(Tail(ret.out))

SpecCodec == Init /\ [][NextCodec]_vars

(* SpecLifetime: chunks under every operation of the store, the search *)
(* engine and the indexing pipeline                                      *)

\* metadata as callers give it: a dict is a sequence of key-value pairs
LifetimeMetadata == {Some(<<>>), Some(<<<<"k", "v">>>>)}

\* chunks arrive an hour apart; one with metadata carries a line range
\* that starts at line 0
LifetimeChunk(metadata) ==
    <<Some(<<"X", "y">>), Some(SecondsPerHour * chunk_seq),
      IF metadata = Some(<<>>) THEN None ELSE Some(0),
      IF metadata = Some(<<>>) THEN None ELSE Some(2),
      IF metadata = Some(<<>>) THEN None ELSE Some("decision"),
      metadata>>

NextLifetime ==
    \/ \E metadata \in LifetimeMetadata :
           LET a == LifetimeChunk(metadata)
           IN  add_chunk(Some(Source), a[1], a[2], a[3], a[4], a[5], a[6])
    \/ chunk_seq >= 1 /\ add_embedding(1, encode_vector(<<1, 0>>), OpenAIModel, SearchNow)
    \/ Len(search_log) < MaxLog /\ log_search(Query, 0, SearchNow)
    \/ /\ Len(search_log) < MaxLog
       /\ \E rows \in Orders(SearchRows(None, None)) :
              search_index(Query, 10, None, None, <<1, 0>>, rows, SearchNow)
    \/ \E memory_id \in 1..chunk_seq : get_timeline(memory_id, 1)
    \/ \E chunk_id \in 1..chunk_seq : get_memories(<<chunk_id>>)
    \/ search_fulltext(<<"x">>, 10)
    \/ index_file(NoteB, FALSE, LocalModel, [k \in 1..MaxEvents |-> Some(<<1, 0>>)], SearchNow)
    \/ \E chunk_id \in 1..(chunk_seq + 1) : get_chunk(chunk_id)

SpecLifetime == Init /\ [][NextLifetime]_vars

-----------------------------------------------------------------------------
(* Claims about the chunk store *)

RowsOf(table, chunk_id) == {e \in table : e.chunk_id = chunk_id}

EmbeddingRows(chunk_id) == RowsOf(embeddings, chunk_id)

\* C3: add_embedding for a chunk id that references no chunk fails and
\* writes no row, so every embeddings row references an existing chunk.
C3_EmbeddingsReferenceChunks ==
    /\ \A e \in embeddings : e.chunk_id \in ChunkIds
    /\ (ret.op = "add_embedding" /\ ret.args[1] \notin ChunkIds) => ret.err # ""

\* C4: add_chunk with empty content or without a timestamp fails, so every
\* stored chunk has non-empty content and a timestamp.
C4_ChunksHaveContentAndTimestamp ==
    /\ \A c \in memory_chunks : c.content # <<>> /\ c.timestamp \in Int
    /\ (ret.op = "add_chunk" /\ (ret.args[2] \in {None, Some(<<>>)} \/ ret.args[3] = None))
           => ret.err # ""

\* C7: there is at most one embeddings row per chunk id; after
\* add_embedding(chunk_id, vector, model) the row of chunk_id holds that
\* vector and model; no other call changes the row of chunk_id; repeating
\* the same add_embedding leaves the stored vector and model as they were.
C7_ReplaceByChunkId ==
    [][/\ \A id \in 1..(chunk_seq' + 1) : Cardinality(RowsOf(embeddings', id)) <= 1
       /\ (ret'.op = "add_embedding" /\ ret'.err = "")
              => \E e \in RowsOf(embeddings', ret'.args[1]) :
                     e.vector = ret'.args[2] /\ e.model = ret'.args[3]
       /\ \A id \in 1..(chunk_seq' + 1) :
              ~(ret'.op = "add_embedding" /\ ret'.args[1] = id)
                 => RowsOf(embeddings', id) = EmbeddingRows(id)
       /\ (ret.op = "add_embedding" /\ ret' = ret)
              => {<<e.vector, e.model>> : e \in RowsOf(embeddings', ret.args[1])}
                    = {<<e.vector, e.model>> : e \in EmbeddingRows(ret.args[1])}
      ]_vars

\* an add_embedding has just written the row of chunk 1 with the later clock
\* value and the second model while another chunk holds a row of its own
C7_Witness ==
    /\ ret.op = "add_embedding" /\ ret.err = "" /\ ret.args[1] = 1
    /\ 1 \in ChunkIds
    /\ \E e \in EmbeddingRows(1) : e.model = OpenAIModel /\ e.created_at = 1700000001
    /\ \E e \in EmbeddingRows(2) : e.model = LocalModel

\* C8: get_unindexed_chunks returns exactly the chunks whose id is in the
\* set of chunk ids minus the set of embedded chunk ids, each once.
C8_UnindexedIsSetDifference ==
    ret.op = "get_unindexed_chunks" =>
        /\ {ret.out[i].id : i \in 1..Len(ret.out)}
               = ChunkIds \ {e.chunk_id : e \in embeddings}
        /\ \A i \in 1..Len(ret.out) : ret.out[i] \in memory_chunks
        /\ \A i, j \in 1..Len(ret.out) : ret.out[i].id = ret.out[j].id => i = j

\* the call returned two chunks while a third chunk is embedded
C8_Witness ==
    /\ ret.op = "get_unindexed_chunks" /\ Len(ret.out) = 2
    /\ \E e \in embeddings : e.chunk_id \in ChunkIds

-----------------------------------------------------------------------------
(* Claims about the timeline *)

TimelineIds == {ret.out[i].id : i \in 1..Len(ret.out)}

TimestampOf(id) == Val(db_get_chunk(id)).timestamp

\* the chunks within window_hours hours of the anchor, bounds included
WithinWindow(anchor_id, window_hours) ==
    {c.id : c \in {c \in memory_chunks :
        Abs(c.timestamp - TimestampOf(anchor_id)) <= window_hours * SecondsPerHour}}

TimelineExact ==
    IF ret.args[1] \in ChunkIds
    THEN /\ TimelineIds = WithinWindow(ret.args[1], ret.args[2])
         /\ Len(ret.out) = Cardinality(TimelineIds)
         /\ \A i, j \in 1..Len(ret.out) :
                i < j => TimestampOf(ret.out[i].id) <= TimestampOf(ret.out[j].id)
    ELSE ret.out = <<>>

\* C9 as claimed: for an existing id and any window_hours, get_timeline
\* returns exactly the chunks with |t - anchor| <= window_hours * 3600 in
\* ascending timestamp order, the anchor always among them; for an absent id
\* it returns the empty list.
C9_TimelineAnyWindow ==
    ret.op = "get_timeline" =>
        /\ TimelineExact
        /\ ret.args[1] \in ChunkIds => ret.args[1] \in TimelineIds

\* C9 as amended: the anchor is among the chunks returned when
\* window_hours >= 0; the rest of the claim holds for any window_hours.
C9_TimelineNonNegativeWindow ==
    ret.op = "get_timeline" =>
        /\ TimelineExact
        /\ (ret.args[1] \in ChunkIds /\ ret.args[2] >= 0)
               => ret.args[1] \in TimelineIds

\* a one-hour timeline around the chunk at 0 holds the chunk at 3600, not
\* the one at 3601
C9_Witness ==
    /\ ret.op = "get_timeline" /\ ret.args = <<1, 1>>
    /\ 1 \in ChunkIds
    /\ TimestampOf(1) = 0
    /\ Len(ret.out) = 2
    /\ \E c \in memory_chunks : c.timestamp = 3601
    /\ \E c \in memory_chunks : c.timestamp = 3600 /\ c.id \in TimelineIds

-----------------------------------------------------------------------------
(* Claims about search_index *)

\* C1: the list search_index returns is sorted by descending similarity
\* score, and of two results with equal score the one with the higher chunk
\* timestamp comes first.
C1_SortedWithRecentFirstOnTies ==
    (ret.op = "search_index" /\ ret.err = "") =>
        \A i, j \in 1..Len(ret.out) :
            i < j =>
                \/ ret.out[i].relevance > ret.out[j].relevance
                \/ /\ ret.out[i].relevance = ret.out[j].relevance
                   /\ TimestampOf(ret.out[i].id) >= TimestampOf(ret.out[j].id)

\* C2: search_index never scores or ranks a stored embedding whose model
\* differs from the model of the generator that embedded the query.
C2_OnlySameModelScored ==
    (ret.op = "search_index" /\ ret.err = "") =>
        \A i \in 1..Len(ret.out) :
            \A e \in EmbeddingRows(ret.out[i].id) : e.model = SearchModel

-----------------------------------------------------------------------------
(* Claims about chunk_text, for max_chars > 0 and 0 <= overlap < max_chars *)

\* C5: chunk_text terminates and each window after the first starts
\* strictly after the start of the window before it; the starts then lie in
\* 0..len(text)-1 and ascend, so no call takes more than len(text) windows.
C5_StepAlwaysPositive ==
    /\ \A i \in 1..(Len(ct.windows) - 1) : ct.windows[i + 1][1] > ct.windows[i][1]
    /\ Len(ct.windows) <= Len(ct.text)

\* the characters of text a window covers, as indices from 0
Covered(text, w) ==
    {i \in 0..(Len(text) - 1) :
        SliceIndex(w[1], Len(text)) <= i /\ i < SliceIndex(w[2], Len(text))}

\* C6: for a non-empty text, the list chunk_text returns is non-empty, and
\* the spans [start, end) of the windows it took cover every index of the
\* text, with no gap between one window and the next.
C6_NonEmptyAndCovering ==
    (ct.pc = "done" /\ Len(ct.text) > 0) =>
        /\ Len(ret.out) >= 1
        /\ \/ ct.windows = <<>> /\ ret.out = <<ct.text>>
           \/ /\ Len(ret.out) = Len(ct.windows)
              /\ ct.windows[1][1] = 0
              /\ UNION {Covered(ct.text, ct.windows[i]) : i \in 1..Len(ct.windows)}
                     = 0..(Len(ct.text) - 1)
              /\ \A i \in 1..(Len(ct.windows) - 1) :
                     /\ ct.windows[i + 1][1] <= ct.windows[i][2]
                     /\ ct.windows[i + 1][1] >= 0

\* a call that returned after a window cut at a paragraph break and a
\* second window that overlaps it
C6_Witness ==
    /\ ct.pc = "done" /\ Len(ct.windows) = 2 /\ ct.overlap = 1
    /\ ct.windows[1][2] < ct.max_chars
    /\ SubSeq(ct.text, ct.windows[1][2] + 1, ct.windows[1][2] + 2) = <<"\n", "\n">>

-----------------------------------------------------------------------------
(* Claims about the indexing pipeline *)

ChunksOfSource(table, path) == {c \in table : c.source_file = path}

\* C10: an index_file run on a source that already has chunks from an
\* earlier run adds no chunk and changes none: the chunks stored for the
\* source stay exactly those the first run created.
C10_ReindexAddsNoChunk ==
    [][(ret'.op = "index_file" /\ ChunksOfSource(memory_chunks, ret'.args[1]) # {})
          => /\ memory_chunks' = memory_chunks
             /\ ret'.out = 0
      ]_vars

\* a run over the first note returned 0 although both of its chunks are
\* stored and embedded: it is a re-run
C10_Witness ==
    /\ ret.op = "index_file" /\ ret.args = <<NoteA.path, FALSE>> /\ ret.out = 0
    /\ Cardinality(ChunksOfSource(memory_chunks, NoteA.path)) = 2
    /\ \A c \in ChunksOfSource(memory_chunks, NoteA.path) : EmbeddingRows(c.id) # {}

\* what a working backend gives for the events of one run
WorkingBackend == [k \in 1..MaxEvents |-> Some(<<1, 0>>)]

\* C16: when the embedding backend failed for some chunk of a source in an
\* index_file run, a further index_file run on that source with a working
\* backend ends with every chunk of the source embedded and with no
\* duplicate chunk.
C16_RerunEmbedsEveryChunk ==
    [][\A file \in Files :
          (/\ \E c \in ChunksOfSource(memory_chunks, file.path) : EmbeddingRows(c.id) = {}
           /\ index_file(file, FALSE, LocalModel, WorkingBackend, SearchNow))
          => /\ \A c \in ChunksOfSource(memory_chunks', file.path) :
                    RowsOf(embeddings', c.id) # {}
             /\ Cardinality(ChunksOfSource(memory_chunks', file.path))
                    = Len(extract_events_from_file(file))
      ]_vars

-----------------------------------------------------------------------------
(* Claims about the limit and the log of search_index *)

\* does chunk c pass the filters of a search_index call
PassesFilters(c, date_range, event_type) ==
    /\ event_type # None => c.event_type = event_type
    /\ (date_range # None /\ Val(date_range)[1] # None)
           => c.timestamp >= Val(Val(date_range)[1])
    /\ (date_range # None /\ Val(date_range)[2] # None)
           => c.timestamp <= Val(Val(date_range)[2])

\* the embedded chunks that pass the filters
Candidates(date_range, event_type) ==
    {c \in memory_chunks :
        /\ \E e \in embeddings : e.chunk_id = c.id
        /\ PassesFilters(c, date_range, event_type)}

\* C11: for every limit >= 0, search_index returns at most limit results,
\* and exactly min(limit, number of embedded chunks passing the filters).
C11_ReturnsMinOfLimitAndCandidates ==
    (ret.op = "search_index" /\ ret.err = "" /\ ret.args[2] >= 0) =>
        /\ Len(ret.out) <= ret.args[2]
        /\ Len(ret.out) = Min(ret.args[2],
                              Cardinality(Candidates(ret.args[3], ret.args[4])))

\* a filtered search whose limit cuts the candidates short
C11_Witness ==
    /\ ret.op = "search_index" /\ ret.err = ""
    /\ ret.args[2] = 1
    /\ ret.args[4] # None
    /\ Len(ret.out) = 1
    /\ Cardinality(Candidates(ret.args[3], ret.args[4])) = 2
    /\ Cardinality(Candidates(None, None)) = 3

\* C12: every search_index call that returns appends exactly one entry to
\* the search log, with the query passed in and with the length of the
\* returned list as its result count; get_timeline, get_memories,
\* search_fulltext, add_chunk and add_embedding leave the log as it was.
C12_OneLogEntryPerSearch ==
    [][/\ (ret'.op = "search_index" /\ ret'.err = "") =>
              /\ Len(search_log') = Len(search_log) + 1
              /\ SubSeq(search_log', 1, Len(search_log)) = search_log
              /\ search_log'[Len(search_log')].query = ret'.args[1]
              /\ search_log'[Len(search_log')].result_count = Len(ret'.out)
       /\ ret'.op \in {"get_timeline", "get_memories", "search_fulltext",
                       "add_chunk", "add_embedding"} =>
              search_log' = search_log]_vars

\* a search that returned a non-empty list, cut short by its limit, and
\* logged it
C12_Witness ==
    /\ ret.op = "search_index" /\ ret.err = ""
    /\ Len(ret.out) = 1
    /\ Cardinality(Candidates(None, None)) = 2
    /\ Len(search_log) = 1
    /\ search_log[1].result_count = 1

-----------------------------------------------------------------------------
(* Claims about the vector codec *)

\* C13: decode_vector(encode_vector(v)) equals v component for component,
\* for every vector v, and encode_vector(v) is exactly 4 * len(v) bytes long.
C13_RoundTripExact ==
    /\ ret.op = "encode_vector" => Len(ret.out) = 4 * Len(ret.args[1])
    /\ (ret.op = "decode_vector" /\ ret.err = "") =>
           \A v \in Vectors : encode_vector(v) = ret.args[1] => ret.out = v

-----------------------------------------------------------------------------
(* Claims about get_memories *)

\* "start-end" for a chunk stored with both line numbers
LineRange(c) == IntStr(Val(c.line_start)) \o <<"-">> \o IntStr(Val(c.line_end))

\* C14: for every chunk get_memories returns, the line-range field is the
\* string "start-end" whenever the chunk was stored with a line range
\* (for every stored start value, 0 included), and it is absent only when
\* the chunk was stored without one.
C14_LinesWheneverStored ==
    (ret.op = "get_memories" /\ ret.err = "") =>
        \A i \in 1..Len(ret.out) :
            \A c \in ChunkById(ret.out[i].id) :
                /\ (c.line_start # None /\ c.line_end # None)
                       => ret.out[i].lines = Some(LineRange(c))
                /\ ret.out[i].lines = None => c.line_start = None

-----------------------------------------------------------------------------
(* Claims about the lifetime of a chunk *)

\* the row an add_chunk call made: the fields are those of the call, with
\* the metadata column as the last argument says
CreatedAs(c, r, metadata) ==
    /\ c.id = r.out
    /\ c.source_file = Val(r.args[1])
    /\ c.content = Val(r.args[2])
    /\ c.timestamp = Val(r.args[3])
    /\ c.line_start = r.args[4]
    /\ c.line_end = r.args[5]
    /\ c.event_type = r.args[6]
    /\ c.metadata = metadata

\* every row stays as it is, and get_chunk hands the row back
KeptAndRetrievable ==
    /\ \A c \in memory_chunks : c \in memory_chunks'
    /\ \A c, d \in memory_chunks' : c.id = d.id => c = d
    /\ ret'.op = "get_chunk" =>
           \A c \in memory_chunks' :
               c.id = ret'.args[1] => ret'.out = Some(c)

\* the metadata column for a metadata argument: the JSON text of a
\* non-empty mapping, nothing for no mapping or an empty one
StoredMetadata(metadata) ==
    IF metadata = None \/ Val(metadata) = <<>> THEN None
    ELSE Some([json |-> Val(metadata)])

\* C15 (as stated): every chunk add_chunk returned an id for stays
\* retrievable by get_chunk with exactly the source, line range, content,
\* timestamp, event type and metadata it was created with: no operation
\* updates or deletes a chunk.
C15_KeptWithMetadataAsGiven ==
    [][/\ KeptAndRetrievable
       /\ (ret'.op = "add_chunk" /\ ret'.err = "") =>
              \E c \in memory_chunks' : CreatedAs(c, ret', ret'.args[7])]_vars

\* C15 (amended): as stated, except that the metadata retrieved is the JSON
\* text of the mapping the chunk was created with, and is absent when it
\* was created with no mapping or with an empty one.
C15_KeptWithMetadataSerialised ==
    [][/\ KeptAndRetrievable
       /\ (ret'.op = "add_chunk" /\ ret'.err = "") =>
              \E c \in memory_chunks' :
                  CreatedAs(c, ret', StoredMetadata(ret'.args[7]))]_vars

\* a chunk created with metadata is read back after an embedding was
\* written for it, a search was logged and an indexing run added a chunk
C15_Witness ==
    /\ ret.op = "get_chunk" /\ ret.out # None
    /\ Val(ret.out).id = 1
    /\ Val(ret.out).metadata = Some([json |-> <<<<"k", "v">>>>])
    /\ Val(ret.out).line_start = Some(0)
    /\ \E e \in embeddings : e.chunk_id = 1
    /\ search_log # <<>>
    /\ \E c \in memory_chunks : c.source_file = NoteB.path

-----------------------------------------------------------------------------
(* Claims about the frame of the disclosure stages *)

\* the lists get_timeline may return, from the chunk table alone
TimelineFrom(table, memory_id, window_hours) ==
    LET anchor == {c \in table : c.id = memory_id}
        near == {c \in table :
                   \E a \in anchor :
                       /\ c.timestamp >= a.timestamp - window_hours * SecondsPerHour
                       /\ c.timestamp <= a.timestamp + window_hours * SecondsPerHour}
    IN  {[i \in 1..Len(s) |-> TimelineEntry(s[i])] :
            s \in {o \in Orders(near) :
                      \A i, j \in 1..Len(o) : i < j => o[i].timestamp <= o[j].timestamp}}

\* the lists get_memories may return, from the chunk table alone
MemoriesFrom(table, ids) ==
    {[i \in 1..Len(s) |-> MemoryEntry(s[i])] :
        s \in Orders({c \in table : \E k \in 1..Len(ids) : ids[k] = c.id})}

\* C17: get_timeline, get_memories and search_fulltext leave the chunk
\* table, the embedding table and the search log unchanged; search_index
\* leaves the chunk and embedding tables unchanged; and what get_timeline
\* and get_memories return is fixed by the chunk table alone, whichever
\* search_index calls came before.
C17_StagesKeepNoState ==
    [][/\ ret'.op \in {"get_timeline", "get_memories", "search_fulltext"} =>
              store' = store
       /\ ret'.op = "search_index" =>
              /\ memory_chunks' = memory_chunks
              /\ chunk_seq' = chunk_seq
              /\ embeddings' = embeddings
       /\ ret'.op = "get_timeline" =>
              ret'.out \in TimelineFrom(memory_chunks, ret'.args[1], ret'.args[2])
       /\ ret'.op = "get_memories" =>
              ret'.out \in MemoriesFrom(memory_chunks, ret'.args[1])]_vars

\* get_memories returned two chunks after a search was logged and an
\* embedding stored
C17_Witness ==
    /\ ret.op = "get_memories"
    /\ Len(ret.out) = 2
    /\ search_log # <<>>
    /\ embeddings # {}

=============================================================================
